---- MODULE Spec2Model ----
(***************************************************************************)
(* Model of the agent turn loop of the browser LLM agent (class LLMAgent): *)
(* sendMessage / agentLoop / callLLM / handleToolCalls / executeTool and   *)
(* the pause-cancel gate (togglePause, resumeProcessing, cancelProcessing, *)
(* checkPauseState).                                                       *)
(*                                                                         *)
(* Granularity.  The program runs on one JavaScript event loop.  A step of *)
(* the model is one task of that loop: a UI event handler, a timer of the  *)
(* 100 ms poll, or the settlement of a fetch, each together with all the   *)
(* code that runs synchronously (and in microtasks) after it, up to the    *)
(* next point where the turn loop awaits a timer or a fetch.  pc names     *)
(* that point.  AbortController.abort() rejects a pending fetch at once,   *)
(* so the loop's reaction to the rejection belongs to the cancel step.     *)
(***************************************************************************)
EXTENDS Integers, Sequences, FiniteSets, TLC

\* ---------------------------------------------------------------- bounds
MaxRounds  == 2      \* model requests per turn
MaxCalls   == 2      \* tool calls the model issues in one turn
MaxLogs    == 2      \* console calls of a snippet
MaxDialogs == 2      \* pause dialogs present in the page at once

\* ------------------------------------------------------------ vocabulary
SYSTEM_PROMPT == "SYSTEM_PROMPT"

Inputs == {"hello"}

\* what the text area can hold when Send is pressed
RawInputs == {"", " ", "hello", " again "}

\* data-provider of the provider cards, values of the key field, and the
\* model of the constructor
Providers == {"aipipe", "openai"}
ApiKeys == {"", "sk-key"}
Models == {"gpt-4o-mini"}

\* output text of a model response: empty, or some text
Outputs == {"", "text"}

\* the three registered tools, and a name that is not registered
RemoteTools == {"google_search", "ai_pipe_workflow"}

TOOLS == RemoteTools \cup {"execute_javascript"}

\* shapes of tool call the remote model may issue: a tool name and the
\* arguments string, which is either JSON text or text that does not parse
CallShapes ==
    { [name |-> "google_search",      arguments |-> "json"],
      [name |-> "ai_pipe_workflow",   arguments |-> "json"],
      [name |-> "execute_javascript", arguments |-> "json"],
      [name |-> "no_such_tool",       arguments |-> "json"],
      [name |-> "google_search",      arguments |-> "notjson"] }

\* arguments that parse and whose `code` is a snippet that does not
\* terminate, such as `while (true) {}`
NeverReturns == "loop"

SeqsUpTo(S, n) == UNION { [1..k -> S] : k \in 0..n }

\* ids the remote model gives the calls of its round-th response
CallId(round, i) == (round - 1) * (MaxCalls + 1) + i

MakeCalls(round, shapes) ==
    [ i \in 1..Len(shapes) |->
        [ id |-> CallId(round, i),
          name |-> shapes[i].name,
          arguments |-> shapes[i].arguments ] ]

\* conversation messages (agentLoop's local array `messages`)
Msg(role, content, calls, id) ==
    [ role |-> role, content |-> content, tool_calls |-> calls,
      tool_call_id |-> id ]

SystemMsg == Msg("system", SYSTEM_PROMPT, <<>>, 0)

UserMsg(text) == Msg("user", text, <<>>, 0)

AssistantMsg(text, calls) == Msg("assistant", text, calls, 0)

ToolMsg(r) == Msg("tool", r.result, <<>>, r.tool_call_id)

\* executeTool, default branch: the message of `Unknown tool: ${name}`
UnknownToolError(name) == "error: Unknown tool: " \o name

\* tool results: a value of the tool, or the {error: message} object
IsError(payload) ==
    payload \in { UnknownToolError(c.name) : c \in CallShapes }
                 \cup { "error: Search failed",
                        "error: AI Pipe workflow failed",
                        "error: aborted", "error: Unexpected token" }

\* --------------------------------------------------------------- state
\* ------------------------------------------------ snippets of code_eval

\* a value of the snippet language
Value(type, n, text) == [ type |-> type, n |-> n, text |-> text ]
Undefined == Value("undefined", 0, "")
Null == Value("null", 0, "")
Number(n) == Value("number", n, "")
Str(text) == Value("string", 0, text)
ErrorObject(name, message) == Value(name, 0, message)

\* the console methods a snippet calls, each with the one argument "m"
ConsoleLevels == {"log", "warn", "error", "info"}

\* how a snippet ends after its console calls
Endings == { "return 1+1", "no return", "throw new Error('boom')",
             "throw 'boom'", "throw null", "syntax error" }

\* the code of a call: console calls, then an ending
Snippets == [ calls : SeqsUpTo(ConsoleLevels, MaxLogs), ending : Endings ]

\* the return_value argument of the call
ReturnValueArgs == {"absent", "true", "false"}

EvalInputs == [ code : Snippets, return_value : ReturnValueArgs ]

NoSnippet == [ code |-> [ calls |-> <<>>, ending |-> "no return" ],
               return_value |-> "absent" ]

\* no call of executeJavaScript yet
NoResult ==
    [ impl |-> "none", thrown |-> FALSE, success |-> FALSE,
      hasResult |-> FALSE, result |-> Undefined,
      hasError |-> FALSE, error |-> Undefined,
      hasConsole |-> FALSE, console_output |-> <<>> ]

\* ------------------------------------------------------ calls of search

\* largest num_results the remote model is taken to supply
MaxNumResults == 11

\* `num_results = 5` and `params.num_results || 5`
DefaultNumResults == 5

\* TOOLS, google_search: "Number of results to return (1-10)"
NumResultsLimit == 10

\* the num_results argument of a call: left out, or an integer
Absent == [ given |-> FALSE, n |-> 0 ]
Given(k) == [ given |-> TRUE, n |-> k ]
NumResults == {Absent} \cup { Given(k) : k \in 0..MaxNumResults }

\* what the search provider answers: JSON with a non-empty `items` array,
\* with an empty one, without `items` (what it sends when nothing is found),
\* with an `error` object; a body that is not JSON; no answer at all
ProviderResponses ==
    { "items", "empty items", "no items", "error object", "not json",
      "network error" }

SearchInputs == [ num_results : NumResults, response : ProviderResponses ]

NoSearch == [ num_results |-> Absent, response |-> "no items" ]

\* no call of googleSearch yet
NoSearchResult ==
    [ impl |-> "none", num |-> 0, thrown |-> FALSE, results |-> 0,
      hasMessage |-> FALSE, hasError |-> FALSE ]

VARIABLES
    isProcessing,     \* this.isProcessing
    isPaused,         \* this.isPaused
    abortController,  \* this.abortController: "null", "live", "aborted"
    dialogs,          \* number of #pause-dialog elements in the page
    report,           \* how the last turn ended: "none", "done",
                      \*   "cancelled" ('Request was cancelled by user.'),
                      \*   "error" (`Error: ${error.message}`)
    pc,               \* where the turn loop is suspended
    messages,         \* agentLoop: const messages
    output,           \* agentLoop: output of the current round
    toolCalls,        \* agentLoop: toolCalls of the current round
    results,          \* handleToolCalls: const results
    idx,              \* handleToolCalls: position of the for-of loop
    reqLog,           \* model requests started in this turn
    respLog,          \* model responses received in this turn
    toolStarts,       \* tool executions started in this turn
    toolLog,          \* tool results produced in this turn
    announced,        \* ids of the calls that addToolCallsUI has put in
                      \*   the page in this turn ('Executing...')
    wasCancelled,     \* cancelProcessing aborted this turn's token
    llmFailed,        \* a model request of this turn failed
    waited,           \* the loop of this turn has waited at a checkpoint
    inflight,         \* number of fetch calls that have not settled
    userInput,        \* value of the #userInput text area
    shown,            \* messages that sendMessage and agentLoop displayed
                      \*   in this turn, in order
    controls,         \* what updateControls last set: "send" (Send and the
                      \*   text area enabled, Pause hidden), "pause" (both
                      \*   disabled, Pause shown), "paused" (Pause reads Paused)
    currentProvider,  \* this.currentProvider
    apiKey,           \* this.apiKey
    model,            \* this.model
    configFailed,     \* getHeaders threw in this turn
    evalIn,           \* parameters of a call of executeJavaScript
    evalOut,          \* what that call gave back
    searchIn,         \* parameters of a call of googleSearch and the
                      \*   response the search provider gives it
    searchOut,        \* the request that call sent and what it gave back
    executionHistory, \* ToolExecutor: this.executionHistory
    executing         \* ToolExecutor: calls of executeFunction that wait
                      \*   for a remote request

vars == << isProcessing, isPaused, abortController, dialogs, report, pc,
           messages, output, toolCalls, results, idx, reqLog, respLog,
           toolStarts, toolLog, announced, wasCancelled, llmFailed, waited,
           inflight,
           userInput, shown, controls, currentProvider, apiKey, model,
           configFailed, evalIn, evalOut, searchIn, searchOut,
           executionHistory, executing >>

\* the state as one record, for the synchronous runs of the loop
cur ==
    [ isProcessing |-> isProcessing, isPaused |-> isPaused,
      abortController |-> abortController, dialogs |-> dialogs,
      report |-> report, pc |-> pc, messages |-> messages,
      output |-> output, toolCalls |-> toolCalls, results |-> results,
      idx |-> idx, reqLog |-> reqLog, respLog |-> respLog,
      toolStarts |-> toolStarts, toolLog |-> toolLog,
      announced |-> announced,
      wasCancelled |-> wasCancelled, llmFailed |-> llmFailed,
      waited |-> waited, inflight |-> inflight, userInput |-> userInput,
      shown |-> shown, controls |-> controls,
      currentProvider |-> currentProvider,
      apiKey |-> apiKey, model |-> model, configFailed |-> configFailed,
      evalIn |-> evalIn, evalOut |-> evalOut,
      searchIn |-> searchIn, searchOut |-> searchOut,
      executionHistory |-> executionHistory, executing |-> executing ]

Become(s) ==
    /\ isProcessing' = s.isProcessing
    /\ isPaused' = s.isPaused
    /\ abortController' = s.abortController
    /\ dialogs' = s.dialogs
    /\ report' = s.report
    /\ pc' = s.pc
    /\ messages' = s.messages
    /\ output' = s.output
    /\ toolCalls' = s.toolCalls
    /\ results' = s.results
    /\ idx' = s.idx
    /\ reqLog' = s.reqLog
    /\ respLog' = s.respLog
    /\ toolStarts' = s.toolStarts
    /\ toolLog' = s.toolLog
    /\ announced' = s.announced
    /\ wasCancelled' = s.wasCancelled
    /\ llmFailed' = s.llmFailed
    /\ waited' = s.waited
    /\ inflight' = s.inflight
    /\ userInput' = s.userInput
    /\ shown' = s.shown
    /\ controls' = s.controls
    /\ currentProvider' = s.currentProvider
    /\ apiKey' = s.apiKey
    /\ model' = s.model
    /\ configFailed' = s.configFailed
    /\ evalIn' = s.evalIn
    /\ evalOut' = s.evalOut
    /\ searchIn' = s.searchIn
    /\ searchOut' = s.searchOut
    /\ executionHistory' = s.executionHistory
    /\ executing' = s.executing

\* the state after the constructor; loadConfig has read the provider, the
\* key and the model that localStorage holds
Loaded(provider, key, mod) ==
    /\ currentProvider = provider
    /\ apiKey = key
    /\ model = mod
    /\ isProcessing = FALSE
    /\ isPaused = FALSE
    /\ abortController = "null"
    /\ dialogs = 0
    /\ report = "none"
    /\ pc = "idle"
    /\ messages = <<>>
    /\ output = ""
    /\ toolCalls = <<>>
    /\ results = <<>>
    /\ idx = 0
    /\ reqLog = <<>>
    /\ respLog = <<>>
    /\ toolStarts = <<>>
    /\ toolLog = <<>>
    /\ announced = <<>>
    /\ wasCancelled = FALSE
    /\ llmFailed = FALSE
    /\ waited = FALSE
    /\ inflight = 0
    /\ userInput = ""
    /\ shown = <<>>
    /\ controls = "send"
    /\ configFailed = FALSE
    /\ executionHistory = <<>>
    /\ executing = <<>>

\* nothing stored: the defaults of loadConfig
Init ==
    /\ Loaded("aipipe", "", "gpt-4o-mini")
    /\ evalIn = NoSnippet
    /\ evalOut = NoResult
    /\ searchIn = NoSearch
    /\ searchOut = NoSearchResult

\* ------------------------------------------------- the synchronous code

\* sendMessage, catch and finally: the loop threw an error named errName
\* updateControls(isLoading, isPaused)
updateControls(s, isLoading, paused) ==
    [ s EXCEPT !.controls = IF ~isLoading THEN "send"
                            ELSE IF paused THEN "paused" ELSE "pause" ]

\* String.prototype.trim on the texts of the vocabulary
Trim(text) ==
    CASE text \in {"", " "} -> ""
      [] text = " again " -> "again"
      [] OTHER -> text

\* addMessage: one more message in the chat; the entry keeps how many
\* responses and tool executions the turn had when it was displayed
addMessage(s, type, content) ==
    [ s EXCEPT !.shown = Append(@, [ type |-> type,
                                     content |-> content,
                                     round |-> Len(s.respLog),
                                     starts |-> Len(s.toolStarts) ]) ]

\* the text of the error message of sendMessage's catch
CatchText(errName) ==
    IF errName = "AbortError" THEN "Request was cancelled by user."
    ELSE "Error: ${error.message}"

sendMessageCatchNoFinally(s, errName) ==
    [ addMessage(s, "error", CatchText(errName))
        EXCEPT !.report = IF errName = "AbortError" THEN "cancelled"
                          ELSE "error",
               !.isProcessing = FALSE,
               !.pc = "idle" ]

\* sendMessage, catch and finally
sendMessageCatch(s, errName) ==
    [ updateControls(addMessage(s, "error", CatchText(errName)), FALSE, FALSE)
        EXCEPT !.report = IF errName = "AbortError" THEN "cancelled"
                          ELSE "error",
               !.isProcessing = FALSE,
               !.isPaused = FALSE,
               !.abortController = "null",
               !.pc = "idle" ]

\* sendMessage, try returned and finally
sendMessageReturn(s) ==
    [ updateControls(s, FALSE, FALSE)
        EXCEPT !.report = "done",
               !.isProcessing = FALSE,
               !.isPaused = FALSE,
               !.abortController = "null",
               !.pc = "idle" ]

\* checkPauseState that forgets the check of the abort signal
checkPauseStateNoAbort(s) ==
    IF s.isPaused /\ s.isProcessing THEN "wait" ELSE "pass"

\* checkPauseState that forgets the poll loop
checkPauseStateNoPause(s) ==
    IF s.abortController = "aborted" THEN "throw" ELSE "pass"

\* checkPauseState: "wait" while paused, then "throw" when the token is
\* aborted (a plain Error, whose name is "Error"), else "pass"
checkPauseState(s) ==
    IF s.isPaused /\ s.isProcessing THEN "wait"
    ELSE IF s.abortController = "aborted" THEN "throw"
    ELSE "pass"

\* checkPauseState, the poll loop: the loop sleeps at checkpoint `where`
pollWait(s, where) ==
    [ s EXCEPT !.pc = where, !.waited = TRUE ]

\* getEndpoint
getEndpoint(s) ==
    IF s.currentProvider = "aipipe"
      THEN "https://aipipe.org/openai/v1/chat/completions"
      ELSE "https://api.openai.com/v1/chat/completions"

\* getHeaders throws 'API key required for OpenAI'
getHeadersThrows(s) ==
    s.apiKey = "" /\ s.currentProvider = "openai"

\* callLLM up to its fetch: getEndpoint, getHeaders, and the request goes
\* out with the conversation
callLLM(s) ==
    IF getHeadersThrows(s)
      THEN sendMessageCatch([ s EXCEPT !.configFailed = TRUE ], "Error")
    ELSE
    [ s EXCEPT !.reqLog = Append(@, [ messages |-> s.messages,
                                      paused |-> s.isPaused,
                                      aborted |-> s.abortController = "aborted",
                                      pending |-> s.inflight,
                                      results |-> Len(s.toolLog),
                                      endpoint |-> getEndpoint(s),
                                      apiKey |-> s.apiKey,
                                      model |-> s.model,
                                      signal |-> TRUE ]),
               !.inflight = @ + 1,
               !.pc = "llm" ]

\* agentLoop, top of the while loop: checkpoint, then callLLM
agentLoop(s) ==
    LET c == checkPauseState(s) IN
    IF c = "wait" THEN pollWait(s, "cp1")
    ELSE IF c = "throw" THEN sendMessageCatch(s, "Error")
    ELSE callLLM(s)

\* agentLoop after handleToolCalls returned: the assistant message and the
\* tool messages are pushed, and the loop goes round
pushRoundReversed(s) ==
    [ s EXCEPT !.messages =
          Append(@, AssistantMsg(s.output, s.toolCalls))
          \o [ i \in 1..Len(s.results) |->
                 ToolMsg(s.results[Len(s.results) + 1 - i]) ] ]

\* a round that restarts the conversation from the system prompt
pushRoundReset(s) ==
    [ s EXCEPT !.messages =
          << s.messages[1], AssistantMsg(s.output, s.toolCalls) >>
          \o [ i \in 1..Len(s.results) |-> ToolMsg(s.results[i]) ] ]

\* agentLoop, lines 365-379: the assistant message, then the tool messages
pushRound(s) ==
    [ s EXCEPT !.messages =
          Append(@, AssistantMsg(s.output, s.toolCalls))
          \o [ i \in 1..Len(s.results) |-> ToolMsg(s.results[i]) ] ]

\* handleToolCalls, try branch: the tool returned `payload`
pushResult(s, payload) ==
    [ s EXCEPT !.results = Append(@, [ tool_call_id |-> s.toolCalls[s.idx].id,
                                       result |-> payload ]),
               !.toolLog = Append(@, [ tool_call_id |-> s.toolCalls[s.idx].id,
                                       result |-> payload ]),
               !.idx = @ + 1 ]

\* a catch branch that swallows the error without recording a result
catchToolErrorDrop(s, message) ==
    [ s EXCEPT !.idx = @ + 1 ]

\* handleToolCalls, catch branch: the tool threw an error with `message`
catchToolError(s, message) ==
    [ s EXCEPT !.results = Append(@, [ tool_call_id |-> s.toolCalls[s.idx].id,
                                       result |-> message ]),
               !.toolLog = Append(@, [ tool_call_id |-> s.toolCalls[s.idx].id,
                                       result |-> message ]),
               !.idx = @ + 1 ]

RECURSIVE forToolCalls(_)

\* a fetch that is started and not awaited: the loop goes on at once
startFetchNoAwait(s) ==
    forToolCalls(pushResult(
        [ s EXCEPT !.toolStarts = Append(@, [ id |-> s.toolCalls[s.idx].id,
                                              name |-> s.toolCalls[s.idx].name,
                                              paused |-> s.isPaused,
                                              aborted |-> s.abortController = "aborted",
                                              pending |-> s.inflight,
                                              idx |-> s.idx,
                                              results |-> Len(s.results),
                                              signal |-> TRUE ]),
                   !.inflight = @ + 1 ],
        "pending"))

\* a fetch that is not given the signal of the abort controller
startFetchNoSignal(s) ==
    [ s EXCEPT !.toolStarts = Append(@, [ id |-> s.toolCalls[s.idx].id,
                                          name |-> s.toolCalls[s.idx].name,
                                          paused |-> s.isPaused,
                                          aborted |-> s.abortController = "aborted",
                                          pending |-> s.inflight,
                                          idx |-> s.idx,
                                          results |-> Len(s.results),
                                          signal |-> FALSE ]),
               !.inflight = @ + 1,
               !.pc = "tool" ]

\* executeTool for a tool that makes a request: the fetch goes out with
\* `signal: this.abortController?.signal` and the loop awaits it
startFetch(s) ==
    [ s EXCEPT !.toolStarts = Append(@, [ id |-> s.toolCalls[s.idx].id,
                                          name |-> s.toolCalls[s.idx].name,
                                          paused |-> s.isPaused,
                                          aborted |-> s.abortController = "aborted",
                                          pending |-> s.inflight,
                                          idx |-> s.idx,
                                          results |-> Len(s.results),
                                          signal |-> TRUE ]),
               !.inflight = @ + 1,
               !.pc = "tool" ]

\* executeJavaScript: runs the snippet synchronously and returns its record
executeJavaScript(s) ==
    pushResult([ s EXCEPT !.toolStarts =
                     Append(@, [ id |-> s.toolCalls[s.idx].id,
                                 name |-> s.toolCalls[s.idx].name,
                                 paused |-> s.isPaused,
                                 aborted |-> s.abortController = "aborted",
                                 pending |-> s.inflight,
                                 idx |-> s.idx,
                                 results |-> Len(s.results),
                                 signal |-> FALSE ]) ],
               "js result")

\* a snippet whose run is in another thread and can be given up
executeJavaScriptHangsAbortable(s) ==
    startFetch(s)

\* executeJavaScript, line 551: `func(mockConsole)` is a synchronous call;
\* with a snippet that does not return, the call never returns and the one
\* thread of the page stays in it
executeJavaScriptHangs(s) ==
    [ s EXCEPT !.toolStarts =
                 Append(@, [ id |-> s.toolCalls[s.idx].id,
                             name |-> s.toolCalls[s.idx].name,
                             paused |-> s.isPaused,
                             aborted |-> s.abortController = "aborted",
                             pending |-> s.inflight,
                             idx |-> s.idx,
                             results |-> Len(s.results),
                             signal |-> FALSE ]),
               !.pc = "js" ]

\* an unknown tool name that falls into an executor
executeToolDefaultRuns(s) ==
    executeJavaScript(s)

\* executeTool, default branch, and the catch of handleToolCalls
executeToolDefault(s) ==
    catchToolError(s, UnknownToolError(s.toolCalls[s.idx].name))

\* handleToolCalls, the for-of loop from position s.idx on, and what
\* follows it in agentLoop
forToolCalls(s) ==
    IF s.idx > Len(s.toolCalls) THEN agentLoop(pushRound(s))
    ELSE
      LET c == checkPauseState(s)
          call == s.toolCalls[s.idx]
      IN
      IF c = "wait" THEN pollWait(s, "cp4")
      ELSE IF c = "throw" THEN sendMessageCatch(s, "Error")
      ELSE IF call.arguments = "notjson"
        THEN forToolCalls(catchToolError(s, "error: Unexpected token"))
      ELSE IF call.name \in RemoteTools THEN startFetch(s)
      ELSE IF call.name = "execute_javascript"
        THEN IF call.arguments = NeverReturns THEN executeJavaScriptHangs(s)
             ELSE forToolCalls(executeJavaScript(s))
      ELSE forToolCalls(executeToolDefault(s))

\* addToolCallsUI parses the arguments of every call, outside any try
addToolCallsUIThrows(calls) ==
    \E i \in 1..Len(calls) : calls[i].arguments = "notjson"

\* addToolCallsUI: one element per call of the round, each with a result
\* element `result-<id>` that reads 'Executing...'
addToolCallsUI(s) ==
    [ s EXCEPT !.announced =
                 @ \o [ i \in 1..Len(s.toolCalls) |-> s.toolCalls[i].id ] ]

\* a round whose assistant message is appended before its tools run
handleToolCallsAssistantFirst(s) ==
    IF addToolCallsUIThrows(s.toolCalls) THEN sendMessageCatch(s, "SyntaxError")
    ELSE forToolCalls([ addToolCallsUI(s) EXCEPT !.results = <<>>, !.idx = 1,
                                 !.messages =
                                   Append(@, AssistantMsg(s.output, s.toolCalls)) ])

\* handleToolCalls from its start
handleToolCalls(s) ==
    IF addToolCallsUIThrows(s.toolCalls) THEN sendMessageCatch(s, "SyntaxError")
    ELSE forToolCalls([ addToolCallsUI(s) EXCEPT !.results = <<>>, !.idx = 1 ])

\* a display that tests the text without trim
showOutputNoTrim(s) ==
    IF s.output # "" THEN addMessage(s, "agent", s.output) ELSE s

\* agentLoop, lines 347-350: `if (output.trim()) addMessage('agent', output)`
showOutput(s) ==
    IF Trim(s.output) # "" THEN addMessage(s, "agent", s.output) ELSE s

\* agentLoop, third checkpoint and the call of handleToolCalls
beforeTools(s) ==
    LET c == checkPauseState(s) IN
    IF c = "wait" THEN pollWait(s, "cp3")
    ELSE IF c = "throw" THEN sendMessageCatch(s, "Error")
    ELSE handleToolCalls(s)

\* agentLoop that does not return on a response without tool calls
afterOutputNoReturn(s) ==
    beforeTools(showOutput(s))

\* agentLoop between the second and the third checkpoint
afterOutput(s) ==
    IF Len(s.toolCalls) = 0 THEN sendMessageReturn(showOutput(s))
    ELSE beforeTools(showOutput(s))

\* agentLoop, second checkpoint, after callLLM returned
afterLLM(s) ==
    LET c == checkPauseState(s) IN
    IF c = "wait" THEN pollWait(s, "cp2")
    ELSE IF c = "throw" THEN sendMessageCatch(s, "Error")
    ELSE afterOutput(s)

\* a resume that starts the round again instead of continuing after the
\* checkpoint
resumeAtRestart(s) ==
    agentLoop(s)

\* the code that follows the poll loop of each checkpoint
resumeAt(s) ==
    CASE s.pc = "cp1" -> agentLoop(s)
      [] s.pc = "cp2" -> afterLLM(s)
      [] s.pc = "cp3" -> beforeTools(s)
      [] s.pc = "cp4" -> forToolCalls(s)

\* a failed model request that is tried again
callLLMFailRetry(s) ==
    agentLoop([ s EXCEPT !.llmFailed = TRUE, !.inflight = @ - 1 ])

\* callLLM failed: fetch rejected, the status was not 2xx, or the body was
\* malformed; the error is not an AbortError and reaches sendMessage's catch
callLLMFail(s) ==
    sendMessageCatch([ s EXCEPT !.llmFailed = TRUE, !.inflight = @ - 1 ],
                     "Error")

\* callLLM returned {output, toolCalls}
callLLMReturn(s, out, calls) ==
    afterLLM([ s EXCEPT !.inflight = @ - 1,
                        !.output = out,
                        !.toolCalls = calls,
                        !.respLog = Append(@, [ output |-> out,
                                                toolCalls |-> calls ]) ])

\* googleSearch / aiPipeWorkflow settled without abort
toolFetchSettled(s, ok) ==
    LET name == s.toolCalls[s.idx].name
        t == [ s EXCEPT !.inflight = @ - 1 ]
    IN
    IF name = "google_search"
      THEN IF ok THEN forToolCalls(pushResult(t, "search results"))
           ELSE forToolCalls(catchToolError(t, "error: Search failed"))
      ELSE IF ok THEN forToolCalls(pushResult(t, "workflow result"))
           ELSE forToolCalls(catchToolError(t, "error: AI Pipe workflow failed"))

\* abort(): the pending fetch of the loop is rejected if it was given the
\* signal
fetchAborted(s) ==
    LET t == [ s EXCEPT !.inflight = 0 ] IN
    IF s.pc = "llm" /\ s.reqLog[Len(s.reqLog)].signal
      THEN sendMessageCatch(t, "AbortError")
    ELSE IF s.pc = "tool" /\ s.toolStarts[Len(s.toolStarts)].signal
      THEN IF s.toolCalls[s.idx].name = "google_search"
             THEN forToolCalls(catchToolError(t, "error: Search failed"))
             ELSE forToolCalls(catchToolError(t, "error: aborted"))
    ELSE s

\* ------------------------------------------------------------- actions

\* a turn whose conversation goes on from the conversation of the turn before
startTurnKeepsHistory(s, message) ==
    agentLoop(
      [ addMessage([ s EXCEPT !.shown = <<>>,
                              !.respLog = <<>>,
                              !.toolStarts = <<>> ], "user", message)
          EXCEPT !.userInput = "",
                 !.controls = "pause",
                 !.isProcessing = TRUE,
                 !.isPaused = FALSE,
                 !.abortController = "live",
                 !.report = "none",
                 !.messages = IF s.messages = <<>>
                                THEN << SystemMsg, UserMsg(message) >>
                                ELSE Append(s.messages, UserMsg(message)),
                 !.output = "",
                 !.toolCalls = <<>>,
                 !.results = <<>>,
                 !.idx = 0,
                 !.reqLog = <<>>,
                 !.toolLog = <<>>,
                 !.announced = <<>>,
                 !.wasCancelled = FALSE,
                 !.llmFailed = FALSE,
                 !.waited = FALSE,
                 !.configFailed = FALSE ])

\* the turn that sendMessage starts for `message`, up to the first await of
\* the loop; the records of the turn before are dropped
startTurn(s, message) ==
    agentLoop(
      [ addMessage([ s EXCEPT !.shown = <<>>,
                              !.respLog = <<>>,
                              !.toolStarts = <<>> ], "user", message)
          EXCEPT !.userInput = "",
                 !.controls = "pause",
                 !.isProcessing = TRUE,
                 !.isPaused = FALSE,
                 !.abortController = "live",
                 !.report = "none",
                 !.messages = << SystemMsg, UserMsg(message) >>,
                 !.output = "",
                 !.toolCalls = <<>>,
                 !.results = <<>>,
                 !.idx = 0,
                 !.reqLog = <<>>,
                 !.toolLog = <<>>,
                 !.announced = <<>>,
                 !.wasCancelled = FALSE,
                 !.llmFailed = FALSE,
                 !.waited = FALSE,
                 !.configFailed = FALSE ])

\* sendMessage without the test of isProcessing
sendMessageAlways(s) ==
    IF Trim(s.userInput) = "" THEN s
    ELSE startTurn(s, Trim(s.userInput))

\* sendMessage: click on Send, or Enter in the text area
sendMessage(s) ==
    IF Trim(s.userInput) = "" \/ s.isProcessing THEN s
    ELSE startTurn(s, Trim(s.userInput))

\* the user enters a message and sends it while no turn is in progress
SendMessage ==
    \E text \in Inputs :
      /\ ~isProcessing
      /\ Become(sendMessage([ cur EXCEPT !.userInput = text ]))

\* togglePause: click on the pause button (the notices that the pause
\* controls put into the chat are not kept)
togglePause(s) ==
    IF ~s.isProcessing THEN s
    ELSE IF s.isPaused
      THEN updateControls([ s EXCEPT !.isPaused = FALSE ], TRUE, FALSE)
    ELSE updateControls([ s EXCEPT !.isPaused = TRUE, !.dialogs = @ + 1 ],
                        TRUE, TRUE)

\* no handler runs while the thread is inside a synchronous call
TogglePause ==
    /\ pc # "js"
    /\ isProcessing
    /\ isPaused \/ dialogs < MaxDialogs
    /\ Become(togglePause(cur))

\* removePauseDialog: removes the first #pause-dialog, if any
removePauseDialog(s) ==
    IF s.dialogs > 0 THEN [ s EXCEPT !.dialogs = @ - 1 ] ELSE s

\* resumeProcessing: click on Resume in a pause dialog
resumeProcessing(s) ==
    removePauseDialog(updateControls([ s EXCEPT !.isPaused = FALSE ],
                                     TRUE, FALSE))

ResumeProcessing ==
    /\ pc # "js"
    /\ dialogs > 0
    /\ Become(resumeProcessing(cur))

\* cancelProcessing: click on Cancel in a pause dialog
cancelProcessing(s) ==
    LET t == removePauseDialog(s) IN
    IF s.abortController = "null" THEN t
    ELSE IF s.abortController = "aborted" THEN t
    ELSE fetchAborted([ t EXCEPT !.abortController = "aborted",
                                 !.wasCancelled = TRUE ])

CancelProcessing ==
    /\ pc # "js"
    /\ dialogs > 0
    /\ Become(cancelProcessing(cur))

\* a timer of the poll in checkPauseState fires and the loop condition
\* `isPaused && isProcessing` no longer holds
Poll ==
    /\ pc \in {"cp1", "cp2", "cp3", "cp4"}
    /\ ~(isPaused /\ isProcessing)
    /\ Become(resumeAt(cur))

\* the number of tool calls of the first k responses of this turn
RECURSIVE CallsUpTo(_)
CallsUpTo(k) ==
    IF k = 0 THEN 0 ELSE CallsUpTo(k - 1) + Len(respLog[k].toolCalls)

\* the bounds of the exploration leave room for a response with these calls
WithinBounds(shapes) ==
    /\ shapes = <<>> \/ Len(reqLog) < MaxRounds
    /\ CallsUpTo(Len(respLog)) + Len(shapes) <= MaxCalls

\* the model answers: some text and a list of tool calls
LLMResponse ==
    \E out \in Outputs, shapes \in SeqsUpTo(CallShapes, MaxCalls) :
      /\ pc = "llm"
      /\ WithinBounds(shapes)
      /\ Become(callLLMReturn(cur, out, MakeCalls(Len(respLog) + 1, shapes)))

\* the model request fails
LLMFail ==
    /\ pc = "llm"
    /\ Become(callLLMFail(cur))

\* the request of a tool settles
ToolResponse ==
    \E ok \in BOOLEAN :
      /\ pc = "tool"
      /\ Become(toolFetchSettled(cur, ok))

Next ==
    \/ SendMessage
    \/ TogglePause
    \/ ResumeProcessing
    \/ CancelProcessing
    \/ Poll
    \/ LLMResponse
    \/ LLMFail
    \/ ToolResponse

Spec == Init /\ [][Next]_vars

\* the event loop fires the timers of the poll; the user is not obliged to
\* do anything, and no timeout obliges a remote request to settle
FairSpec ==
    Spec /\ WF_vars(Poll)

\* ------------------------------------------- the text area and the sends

\* texts of the model in the runs that look at the display
UiOutputs == {"", " ", "text"}

\* tool calls of the model in the runs that look at the display or at the
\* configuration
UiCallShapes == { [name |-> "google_search", arguments |-> "json"] }

\* data-prompt of the example cards
ExamplePrompts == {"hello"}

\* the user edits the text area, which is enabled
TypeInput ==
    \E text \in RawInputs :
      /\ controls = "send"
      /\ text # userInput
      /\ userInput' = text
      /\ UNCHANGED << isProcessing, isPaused, abortController, dialogs,
                      report, pc, messages, output, toolCalls, results, idx,
                      reqLog, respLog, toolStarts, toolLog, announced,
                      wasCancelled,
                      llmFailed, waited, inflight, shown, controls,
                      currentProvider, apiKey, model, configFailed,
                      evalIn, evalOut, searchIn, searchOut,
                      executionHistory, executing >>

\* click on Send or Enter in the text area, which are enabled
PressSend ==
    /\ controls = "send"
    /\ Become(sendMessage(cur))

\* useExamplePrompt: click on an example card; the cards are never disabled
useExamplePrompt(s, text) ==
    sendMessage([ s EXCEPT !.userInput = text ])

UseExamplePrompt ==
    \E text \in ExamplePrompts :
      /\ userInput \in RawInputs
      /\ Become(useExamplePrompt(cur, text))

UiLLMResponse ==
    \E out \in UiOutputs, shapes \in SeqsUpTo(UiCallShapes, MaxCalls) :
      /\ pc = "llm"
      /\ WithinBounds(shapes)
      /\ Become(callLLMReturn(cur, out, MakeCalls(Len(respLog) + 1, shapes)))

UiNext ==
    \/ TypeInput
    \/ PressSend
    \/ UseExamplePrompt
    \/ TogglePause
    \/ ResumeProcessing
    \/ CancelProcessing
    \/ Poll
    \/ UiLLMResponse
    \/ LLMFail
    \/ ToolResponse

UiSpec == Init /\ [][UiNext]_vars

\* ------------------------------------------------ snippets that do not end

\* tool calls of the model in the runs with snippets that do not terminate
HangCallShapes ==
    { [name |-> "google_search",      arguments |-> "json"],
      [name |-> "execute_javascript", arguments |-> "json"],
      [name |-> "execute_javascript", arguments |-> NeverReturns] }

HangLLMResponse ==
    \E out \in Outputs, shapes \in SeqsUpTo(HangCallShapes, MaxCalls) :
      /\ pc = "llm"
      /\ WithinBounds(shapes)
      /\ Become(callLLMReturn(cur, out, MakeCalls(Len(respLog) + 1, shapes)))

HangNext ==
    \/ SendMessage
    \/ TogglePause
    \/ ResumeProcessing
    \/ CancelProcessing
    \/ Poll
    \/ HangLLMResponse
    \/ LLMFail
    \/ ToolResponse

HangSpec == Init /\ [][HangNext]_vars

\* ------------------------------------------------ the configuration panel

\* selectProvider: click on a provider card
selectProvider(s, provider) ==
    [ s EXCEPT !.currentProvider = provider ]

SelectProvider ==
    \E provider \in Providers :
      /\ provider # currentProvider
      /\ Become(selectProvider(cur, provider))

\* change event of the #apiKey field
changeApiKey(s, key) ==
    [ s EXCEPT !.apiKey = key ]

ChangeApiKey ==
    \E key \in ApiKeys :
      /\ key # apiKey
      /\ Become(changeApiKey(cur, key))

\* the model answers with a text, in the runs that look at the configuration
CfgLLMResponse ==
    \E out \in {"text"}, shapes \in SeqsUpTo(UiCallShapes, MaxCalls) :
      /\ pc = "llm"
      /\ WithinBounds(shapes)
      /\ Become(callLLMReturn(cur, out, MakeCalls(Len(respLog) + 1, shapes)))

\* localStorage holds a provider and a key, or nothing
CfgInit ==
    /\ \E provider \in Providers, key \in ApiKeys :
         Loaded(provider, key, "gpt-4o-mini")
    /\ evalIn = NoSnippet
    /\ evalOut = NoResult
    /\ searchIn = NoSearch
    /\ searchOut = NoSearchResult

CfgNext ==
    \/ SelectProvider
    \/ ChangeApiKey
    \/ SendMessage
    \/ TogglePause
    \/ ResumeProcessing
    \/ CancelProcessing
    \/ Poll
    \/ CfgLLMResponse
    \/ LLMFail
    \/ ToolResponse

CfgSpec == CfgInit /\ [][CfgNext]_vars

\* ---------------------------------------------------------- code_eval

\* the snippet up to its ending, with the mockConsole of LLMAgent: log, error
\* and warn push a string, any other method is not a function
RECURSIVE mockConsoleRun(_, _)
mockConsoleRun(calls, logs) ==
    IF calls = <<>> THEN [ logs |-> logs, threw |-> FALSE ]
    ELSE CASE Head(calls) = "log" ->
                mockConsoleRun(Tail(calls), Append(logs, "m"))
           [] Head(calls) = "error" ->
                mockConsoleRun(Tail(calls), Append(logs, "ERROR: " \o "m"))
           [] Head(calls) = "warn" ->
                mockConsoleRun(Tail(calls), Append(logs, "WARN: " \o "m"))
           [] OTHER -> [ logs |-> logs, threw |-> TRUE ]

\* the snippet up to its ending, with the sandbox console of ToolExecutor:
\* logOutput pushes {level, message, timestamp} for log, error, warn and
\* info (the timestamp is left out)
RECURSIVE sandboxConsoleRun(_, _)
sandboxConsoleRun(calls, logs) ==
    IF calls = <<>> THEN [ logs |-> logs, threw |-> FALSE ]
    ELSE sandboxConsoleRun(Tail(calls),
                           Append(logs, [ level |-> Head(calls),
                                          message |-> "m" ]))

\* `new Function(...)` and `func(...)`: what the try block ends with, given
\* whether a console call threw
tryBlock(code, consoleThrew) ==
    IF code.ending = "syntax error"
      THEN [ threw |-> TRUE,
             value |-> ErrorObject("SyntaxError", "Unexpected token") ]
    ELSE IF consoleThrew
      THEN [ threw |-> TRUE,
             value |-> ErrorObject("TypeError",
                                   "console.info is not a function") ]
    ELSE CASE code.ending = "return 1+1" ->
                [ threw |-> FALSE, value |-> Number(1 + 1) ]
           [] code.ending = "no return" ->
                [ threw |-> FALSE, value |-> Undefined ]
           [] code.ending = "throw new Error('boom')" ->
                [ threw |-> TRUE, value |-> ErrorObject("Error", "boom") ]
           [] code.ending = "throw 'boom'" ->
                [ threw |-> TRUE, value |-> Str("boom") ]
           [] code.ending = "throw null" ->
                [ threw |-> TRUE, value |-> Null ]

\* `{ code, return_value = true }`
returnValue(params) ==
    IF params.return_value = "absent" THEN TRUE
    ELSE params.return_value = "true"

\* `error.message` in the catch block: a TypeError for null and undefined,
\* undefined for a string, the message of an error object
messageThrows(value) == value.type \in {"null", "undefined"}
message(value) ==
    IF value.type \in {"string", "number"} THEN Undefined
    ELSE Str(value.text)

\* what executeJavaScript gives back: the fields of the returned object, or
\* thrown when the promise is rejected
Returned(impl, ok, hasResult, result, hasError, error, hasConsole, logs) ==
    [ impl |-> impl, thrown |-> FALSE, success |-> ok,
      hasResult |-> hasResult, result |-> result,
      hasError |-> hasError, error |-> error,
      hasConsole |-> hasConsole, console_output |-> logs ]

Rejected(impl) ==
    [ NoResult EXCEPT !.impl = impl, !.thrown = TRUE ]

\* LLMAgent.executeJavaScript
agentExecuteJavaScript(params) ==
    LET run == IF params.code.ending = "syntax error"
                 THEN [ logs |-> <<>>, threw |-> FALSE ]
                 ELSE mockConsoleRun(params.code.calls, <<>>)
        end == tryBlock(params.code, run.threw)
    IN
    IF ~end.threw
      THEN Returned("LLMAgent", TRUE,
                    TRUE, IF returnValue(params) THEN end.value ELSE Null,
                    FALSE, Undefined, TRUE, run.logs)
    ELSE IF messageThrows(end.value) THEN Rejected("LLMAgent")
    ELSE Returned("LLMAgent", FALSE, FALSE, Undefined,
                  TRUE, message(end.value), FALSE, <<>>)

\* ToolExecutor.executeJavaScript (execution_time is left out)
toolExecutorExecuteJavaScript(params) ==
    LET run == IF params.code.ending = "syntax error"
                 THEN [ logs |-> <<>>, threw |-> FALSE ]
                 ELSE sandboxConsoleRun(params.code.calls, <<>>)
        end == tryBlock(params.code, run.threw)
    IN
    IF ~end.threw
      THEN Returned("ToolExecutor", TRUE,
                    TRUE, IF returnValue(params) THEN end.value ELSE Null,
                    FALSE, Undefined, TRUE, run.logs)
    ELSE IF messageThrows(end.value) THEN Rejected("ToolExecutor")
    ELSE Returned("ToolExecutor", FALSE, FALSE, Undefined,
                  TRUE, message(end.value), TRUE, run.logs)

\* the agent has been constructed and a call of code_eval is about to be made
EvalInit ==
    /\ Loaded("aipipe", "", "gpt-4o-mini")
    /\ evalIn \in EvalInputs
    /\ evalOut = NoResult
    /\ searchIn = NoSearch
    /\ searchOut = NoSearchResult

\* executeTool dispatches execute_javascript to LLMAgent.executeJavaScript
EvalAgent ==
    /\ evalOut = NoResult
    /\ Become([ cur EXCEPT !.evalOut = agentExecuteJavaScript(evalIn) ])

\* executeFunction dispatches it to ToolExecutor.executeJavaScript
EvalToolExecutor ==
    /\ evalOut = NoResult
    /\ Become([ cur EXCEPT !.evalOut = toolExecutorExecuteJavaScript(evalIn) ])

EvalNext ==
    \/ EvalAgent
    \/ EvalToolExecutor

EvalSpec == EvalInit /\ [][EvalNext]_vars

\* ------------------------------------------------------ the search tool

\* what googleSearch gives back: the `num` of the request it sent, and
\* either the fields of the object it returned or thrown
SearchReturned(impl, num, items, hasMessage) ==
    [ impl |-> impl, num |-> num, thrown |-> FALSE, results |-> items,
      hasMessage |-> hasMessage, hasError |-> FALSE ]

SearchThrown(impl, num) ==
    [ impl |-> impl, num |-> num, thrown |-> TRUE, results |-> 0,
      hasMessage |-> FALSE, hasError |-> FALSE ]

\* the number of items of a provider response with a non-empty `items`
ItemsOf(response) == IF response = "items" THEN 1 ELSE 0

\* LLMAgent.googleSearch: `{ query, num_results = 5 }` goes into the URL as
\* `&num=${num_results}`; `if (data.items)` holds for every array
agentGoogleSearch(in) ==
    LET num == IF in.num_results = Absent THEN DefaultNumResults
               ELSE in.num_results.n
    IN
    IF in.response \in {"not json", "network error"}
      THEN SearchThrown("LLMAgent", num)
    ELSE IF in.response \in {"items", "empty items"}
      THEN SearchReturned("LLMAgent", num, ItemsOf(in.response), FALSE)
    ELSE SearchReturned("LLMAgent", num, 0, TRUE)

\* ToolExecutor.executeFunction, case 'google_search', and
\* APIConnector.googleSearch: `num: params.num_results || 5`, an error of
\* `data.error`, `(data.items || []).map(...)`
toolExecutorGoogleSearch(in) ==
    LET num == IF in.num_results = Absent \/ in.num_results.n = 0
                 THEN DefaultNumResults
               ELSE in.num_results.n
    IN
    IF in.response \in {"not json", "network error", "error object"}
      THEN SearchThrown("ToolExecutor", num)
    ELSE SearchReturned("ToolExecutor", num, ItemsOf(in.response), FALSE)

\* the agent has been constructed and a call of search is about to be made
SearchInit ==
    /\ Loaded("aipipe", "", "gpt-4o-mini")
    /\ evalIn = NoSnippet
    /\ evalOut = NoResult
    /\ searchIn \in SearchInputs
    /\ searchOut = NoSearchResult

\* executeTool dispatches google_search to LLMAgent.googleSearch
SearchAgent ==
    /\ searchOut = NoSearchResult
    /\ Become([ cur EXCEPT !.searchOut = agentGoogleSearch(searchIn) ])

\* executeFunction dispatches it to APIConnector.googleSearch
SearchToolExecutor ==
    /\ searchOut = NoSearchResult
    /\ Become([ cur EXCEPT !.searchOut = toolExecutorGoogleSearch(searchIn) ])

SearchNext ==
    \/ SearchAgent
    \/ SearchToolExecutor

SearchSpec == SearchInit /\ [][SearchNext]_vars

\* ------------------------------------------------------ the tool executor

\* number of calls of executeFunction in a run
MaxExec == 3

\* the calls given to executeFunction: those of the agent and one whose
\* name is the name of a property that every object inherits
ExecCallShapes ==
    CallShapes \cup { [name |-> "constructor", arguments |-> "json"] }

\* the snippets of the execute_javascript calls given to executeFunction
ExecSnippets ==
    { [ code |-> [ calls |-> <<>>, ending |-> e ], return_value |-> "absent" ] :
        e \in { "return 1+1", "throw new Error('boom')", "throw null" } }

\* the record that executeFunction pushes: {toolCall, result, success: true}
\* after the switch, {toolCall, error, success: false} in its catch
\* (duration and timestamp are left out); resultSuccess is the `success`
\* field of the result, which only execute_javascript gives
Execution(call, threw, resultSuccess) ==
    [ toolCall |-> call,
      hasResult |-> ~threw,
      resultSuccess |-> IF threw THEN "absent" ELSE resultSuccess,
      hasError |-> threw,
      success |-> ~threw ]

\* executeFunction from its start to its first await of a remote request,
\* or to its end
executeFunction(s, call, params) ==
    IF call.arguments = "notjson"
      THEN [ s EXCEPT !.executionHistory =
                        Append(@, Execution(call, TRUE, "absent")) ]
    ELSE IF call.name \in {"google_search", "ai_pipe_workflow"}
      THEN [ s EXCEPT !.executing = Append(@, call) ]
    ELSE IF call.name = "execute_javascript"
      THEN LET r == toolExecutorExecuteJavaScript(params) IN
           [ s EXCEPT !.executionHistory =
                        Append(@, Execution(call, r.thrown,
                                            IF r.success THEN "true"
                                            ELSE "false")) ]
    ELSE [ s EXCEPT !.executionHistory =
                      Append(@, Execution(call, TRUE, "absent")) ]

\* executeFunction after the await: the request of the i-th waiting call
\* has given a result (ok) or has failed
executeFunctionSettled(s, i, ok) ==
    [ s EXCEPT !.executing = SubSeq(@, 1, i - 1) \o SubSeq(@, i + 1, Len(@)),
               !.executionHistory =
                 Append(@, Execution(s.executing[i], ~ok, "absent")) ]

\* names of the properties that the object literal `{}` inherits
ObjectPrototypeKeys == {"constructor"}

\* `stats.toolUsage[toolName]`
toolUsageGet(usage, name) ==
    IF name \in DOMAIN usage THEN usage[name]
    ELSE IF name \in ObjectPrototypeKeys
      THEN Value("function", 0, "function Object() { [native code] }")
    ELSE Undefined

\* `(x || 0) + 1`: a number for undefined and for a number, the text of x
\* followed by "1" for a function and for a string
orZeroPlusOne(x) ==
    IF x.type = "undefined" THEN Number(1)
    ELSE IF x.type = "number" THEN Number(x.n + 1)
    ELSE Str(x.text \o "1")

\* the forEach of getExecutionStats over the first k records
RECURSIVE toolUsage(_, _)
toolUsage(history, k) ==
    IF k = 0 THEN << >>
    ELSE LET usage == toolUsage(history, k - 1)
             name == history[k].toolCall.name
         IN [ key \in DOMAIN usage \cup {name} |->
                IF key = name THEN orZeroPlusOne(toolUsageGet(usage, name))
                ELSE usage[key] ]

\* getExecutionStats (averageDuration is left out)
getExecutionStats(history) ==
    [ total |-> Len(history),
      successful |-> Cardinality({ i \in 1..Len(history) : history[i].success }),
      failed |-> Cardinality({ i \in 1..Len(history) : ~history[i].success }),
      toolUsage |-> toolUsage(history, Len(history)) ]

\* a call of executeFunction
ExecuteFunction ==
    \E call \in ExecCallShapes, params \in ExecSnippets :
      /\ Len(executionHistory) + Len(executing) < MaxExec
      /\ Become(executeFunction(cur, call, params))

\* the remote request of a waiting call settles
ExecuteFunctionSettled ==
    \E i \in 1..Len(executing), ok \in BOOLEAN :
      /\ executing # <<>>
      /\ Become(executeFunctionSettled(cur, i, ok))

ExecNext ==
    \/ ExecuteFunction
    \/ ExecuteFunctionSettled

ExecSpec == Init /\ [][ExecNext]_vars

TypeOK ==
    /\ isProcessing \in BOOLEAN
    /\ isPaused \in BOOLEAN
    /\ abortController \in {"null", "live", "aborted"}
    /\ dialogs \in 0..MaxDialogs
    /\ report \in {"none", "done", "cancelled", "error"}
    /\ pc \in {"idle", "cp1", "llm", "cp2", "cp3", "cp4", "tool", "js"}
    /\ inflight \in 0..(MaxCalls + 1)
    /\ userInput \in RawInputs
    /\ controls \in {"send", "pause", "paused"}
    /\ currentProvider \in Providers
    /\ apiKey \in ApiKeys
    /\ model \in Models
    /\ configFailed \in BOOLEAN

\* ------------------------------------------------------------ properties

Cps == {"cp1", "cp2", "cp3", "cp4"}

Range(f) == { f[i] : i \in DOMAIN f }

\* the tool calls the model has issued in this turn, over all its responses
IssuedIds ==
    UNION { { r.toolCalls[i].id : i \in 1..Len(r.toolCalls) } : r \in Range(respLog) }

\* in conv, every assistant message with n tool calls is followed by exactly
\* n tool messages whose ids are the ids of its calls, each once
ToolMsgsMatch(conv) ==
    \A i \in 1..Len(conv) :
      conv[i].role = "assistant" =>
        LET calls == conv[i].tool_calls
            n == Len(calls)
        IN /\ i + n <= Len(conv)
           /\ \A j \in 1..n : conv[i + j].role = "tool"
           /\ { conv[i + j].tool_call_id : j \in 1..n }
                = { calls[j].id : j \in 1..n }
           /\ Cardinality({ conv[i + j].tool_call_id : j \in 1..n }) = n
           /\ (i + n + 1 <= Len(conv) => conv[i + n + 1].role # "tool")

\* C1: at every model request of a turn after the first one, each assistant
\* message of the conversation that carries n tool calls is followed by
\* exactly n tool messages, whose tool_call_id values are exactly the ids of
\* those calls, also when tool executions failed.
C1_ToolResultsMatchCalls ==
    \A k \in 2..Len(reqLog) : ToolMsgsMatch(reqLog[k].messages)

\* a second model request goes out with a round of two tool calls of which
\* one failed
C1_Witness ==
    /\ pc = "llm"
    /\ Len(reqLog) = 2
    /\ Len(messages) = 5
    /\ Len(messages[3].tool_calls) = 2
    /\ IsError(messages[4].content)
    /\ ~IsError(messages[5].content)

\* C2: whenever the user cancels a turn in progress, the turn eventually
\* ends (processing becomes false) without any further user action.
C2_CancelEndsTurn ==
    (wasCancelled /\ isProcessing) ~> ~isProcessing

\* C3: tool dispatch never throws into the turn loop: a turn that was not
\* cancelled and had no failed model request ends normally, and every tool
\* call the model issued in it has got a result or an {error} result.
C3_ToolFailuresAreResults ==
    (pc = "idle" /\ messages # <<>> /\ ~wasCancelled /\ ~llmFailed) =>
        /\ report = "done"
        /\ IssuedIds = { r.tool_call_id : r \in Range(toolLog) }

\* C4: every turn that ends because the user cancelled it ends with the
\* Cancelled report and never with the generic error report.
C4_CancelReportsCancelled ==
    (pc = "idle" /\ wasCancelled) => report = "cancelled"

\* C5: once the user has cancelled a turn, no model request and no tool
\* call is started in that turn: every request and every tool execution
\* started with the token not aborted.
C5_NoStartAfterCancel ==
    /\ \A k \in 1..Len(reqLog) : ~reqLog[k].aborted
    /\ \A k \in 1..Len(toolStarts) : ~toolStarts[k].aborted

\* a cancelled turn has ended and a tool call the model had issued was
\* never started
C5_Witness ==
    /\ wasCancelled
    /\ pc = "idle"
    /\ toolStarts # <<>>
    /\ \E id \in IssuedIds : \A k \in 1..Len(toolStarts) : toolStarts[k].id # id

\* C6: no remote request (model completion, search, workflow) is started
\* while the gate is Paused.
C6_NoRequestWhilePaused ==
    /\ \A k \in 1..Len(reqLog) : ~reqLog[k].paused
    /\ \A k \in 1..Len(toolStarts) :
         toolStarts[k].name \in RemoteTools => ~toolStarts[k].paused

\* a request was in flight when the user paused, it has completed, the loop
\* has waited at a checkpoint, the user has resumed and the next request is
\* out
C6_Witness ==
    /\ waited
    /\ ~wasCancelled
    /\ ~isPaused
    /\ pc \in {"llm", "tool"}
    /\ Len(reqLog) + Len(toolStarts) >= 2

\* the conversation of the turn without pauses after k rounds, for the
\* responses and tool results this turn has received
RECURSIVE RefConv(_)
RefConv(k) ==
    IF k = 0 THEN << SystemMsg, UserMsg(messages[2].content) >>
    ELSE RefConv(k - 1)
         \o << AssistantMsg(respLog[k].output, respLog[k].toolCalls) >>
         \o [ i \in 1..Len(respLog[k].toolCalls) |->
                ToolMsg(toolLog[CallsUpTo(k - 1) + i]) ]

\* C7: pausing and resuming does not change the conversation: whatever the
\* pause and resume events, the k-th model request carries the conversation
\* that the turn without pauses has after k-1 rounds for the same responses,
\* there is one request per response, and the conversation is that of the
\* completed rounds.
C7_PauseKeepsConversation ==
    messages # <<>> =>
      /\ \A k \in 1..Len(reqLog) :
           /\ CallsUpTo(k - 1) <= Len(toolLog)
           /\ reqLog[k].messages = RefConv(k - 1)
      /\ (~wasCancelled /\ ~llmFailed) =>
           Len(reqLog) = Len(respLog) + (IF pc = "llm" THEN 1 ELSE 0)
      /\ \E k \in 0..Len(respLog) :
           /\ CallsUpTo(k) <= Len(toolLog)
           /\ messages = RefConv(k)

\* the loop has waited at a checkpoint, was resumed, and the second model
\* request of the turn is out
C7_Witness ==
    /\ waited
    /\ ~wasCancelled
    /\ pc = "llm"
    /\ Len(reqLog) = 2
    /\ Len(messages) > 2

\* C8: Cancelled is terminal for the gate: after a cancel no pause or
\* resume event changes the gate, and no checkpoint reached after the cancel
\* waits: the loop never comes to wait at a checkpoint with the token
\* aborted.
C8_CancelledIsTerminal ==
    [][ abortController' = "aborted" =>
          /\ (abortController = "aborted" => isPaused' = isPaused)
          /\ (pc' \in Cps => pc' = pc) ]_vars

\* C9: in a turn with no cancellation and no failure, there is one model
\* request per round, every response but the last carries tool calls, and
\* after a response without tool calls the turn makes no further request and
\* ends (at once, or, when a pause holds it at the checkpoint after the
\* response, as soon as the poll sees the resume); if the first response carries no tool
\* calls, the turn ends after one request, no tool executed, no message
\* appended.
C9_EndsOnFirstPlainResponse ==
    (messages # <<>> /\ ~wasCancelled /\ ~llmFailed) =>
      /\ Len(reqLog) = Len(respLog) + (IF pc = "llm" THEN 1 ELSE 0)
      /\ \A k \in 1..(Len(respLog) - 1) : respLog[k].toolCalls # <<>>
      /\ (respLog # <<>> /\ respLog[Len(respLog)].toolCalls = <<>>) =>
           /\ pc \in {"idle", "cp2"}
           /\ pc = "idle" => report = "done"
           /\ Len(respLog) = 1 =>
                /\ Len(reqLog) = 1
                /\ toolStarts = <<>>
                /\ toolLog = <<>>
                /\ Len(messages) = 2

\* a turn has ended after its first response, which carried no tool calls
C9_Witness ==
    /\ pc = "idle"
    /\ report = "done"
    /\ Len(respLog) = 1
    /\ respLog[1].toolCalls = <<>>

\* C10: a failed model request ends the turn with the error report: no
\* further model request and no tool call follows it in that turn.
C10_FailedRequestEndsTurn ==
    llmFailed =>
      /\ ~isProcessing
      /\ pc = "idle"
      /\ report = "error"
      /\ Len(reqLog) = Len(respLog) + 1
      /\ Len(toolStarts) <= CallsUpTo(Len(respLog))

\* the second model request of a turn has failed, after a round of tools
C10_Witness ==
    /\ llmFailed
    /\ Len(reqLog) = 2
    /\ toolLog # <<>>

\* the calls of the k-th response of this turn all have a result
RoundDone(k) ==
    \A i \in 1..Len(respLog[k].toolCalls) :
      \E e \in Range(toolLog) : e.tool_call_id = respLog[k].toolCalls[i].id

IsPrefix(a, b) == Len(a) <= Len(b) /\ SubSeq(b, 1, Len(a)) = a

\* position in the conversation of the assistant message of round k
RECURSIVE RoundPos(_)
RoundPos(k) ==
    IF k = 1 THEN 3
    ELSE RoundPos(k - 1) + 1 + Len(respLog[k - 1].toolCalls)

\* C13: for each round with tool calls the conversation holds the assistant
\* message with its tool_calls exactly once, directly followed by the tool
\* messages in the order in which the model listed the calls: the i-th tool
\* message carries the id of the i-th call; the conversation holds nothing
\* else after the system and user messages.
C13_RoundAppendedInOrder ==
    messages # <<>> =>
      \E done \in 0..Len(respLog) :
        /\ Len(messages) = RoundPos(done + 1) - 1
        /\ \A k \in 1..done :
             LET calls == respLog[k].toolCalls
                 p == RoundPos(k)
             IN /\ calls # <<>>
                /\ messages[p] = AssistantMsg(respLog[k].output, calls)
                /\ \A i \in 1..Len(calls) :
                     /\ messages[p + i].role = "tool"
                     /\ messages[p + i].tool_call_id = calls[i].id
        /\ Cardinality({ i \in 1..Len(messages) : messages[i].role = "assistant" })
             = done

\* a round of two tool calls has been appended
C13_Witness ==
    /\ Len(messages) = 5
    /\ messages[3].role = "assistant"
    /\ Len(messages[3].tool_calls) = 2
    /\ messages[4].tool_call_id # messages[5].tool_call_id

\* C14: within a turn the conversation only grows at its end, and the
\* message sequence of each model request is the sequence of the previous
\* request of the turn, unchanged, followed by the messages appended since.
C14_ConversationAppendOnly ==
    [][ /\ (isProcessing /\ isProcessing') => IsPrefix(messages, messages')
        /\ \A k \in 2..Len(reqLog') :
             /\ IsPrefix(reqLog'[k - 1].messages, reqLog'[k].messages)
             /\ Len(reqLog'[k - 1].messages) < Len(reqLog'[k].messages)
        /\ (Len(reqLog') > Len(reqLog) /\ isProcessing) =>
             reqLog'[Len(reqLog')].messages = messages' ]_vars

\* the second request of a turn is out and carries a round
C14_Witness ==
    /\ Len(reqLog) = 2
    /\ Len(reqLog[2].messages) > 2
    /\ pc = "llm"

\* C16: paused implies processing, and the cancellation token exists exactly
\* while a turn is processing; a finished turn leaves processing and paused
\* false and the token cleared; every step that starts a turn leaves it
\* running, not paused, with a live token that is not cancelled, whatever
\* pause, resume or cancel events came before.
C16_LoopStateLivesWithTurn ==
    [][ /\ isPaused' => isProcessing'
        /\ (abortController' # "null") <=> isProcessing'
        /\ (pc' = "idle") <=> ~isProcessing'
        /\ (~isProcessing /\ isProcessing') =>
             /\ ~isPaused'
             /\ abortController' = "live"
             /\ ~wasCancelled'
             /\ pc' = "llm"
             /\ Len(reqLog') = 1 ]_vars

\* a turn that was paused and then cancelled has ended
C16_Witness ==
    /\ pc = "idle"
    /\ wasCancelled
    /\ waited
    /\ ~isProcessing
    /\ ~isPaused
    /\ abortController = "null"

C15_FirstRequestIsSystemAndUser ==
    /\ \A k \in 1..Len(reqLog) :
         /\ reqLog[k].messages[1].role = "system"
         /\ reqLog[k].messages[1] = SystemMsg
    /\ Len(reqLog) >= 1 =>
         /\ shown[1].type = "user"
         /\ shown[1].content \in { Trim(raw) : raw \in RawInputs } \ {""}
         /\ reqLog[1].messages = << SystemMsg, UserMsg(shown[1].content) >>

\* a turn for the text " again " has made its second model request
C15_Witness ==
    /\ Len(reqLog) = 2
    /\ reqLog[1].messages = << SystemMsg, UserMsg("again") >>
    /\ reqLog[2].messages[1].role = "system"
    /\ Len(reqLog[2].messages) > 2

\* C18: at most one turn is in progress: in every state where a turn is
\* processing or the text area holds nothing but whitespace, sendMessage
\* leaves the whole state as it is (no loop, no request, no message), a click
\* on an example card changes nothing but the text area, and as long as a
\* turn is processing no step starts its records again.
C18_SendWhileBusyChangesNothing ==
    [][ /\ (isProcessing \/ Trim(userInput) = "") => sendMessage(cur) = cur
        /\ isProcessing =>
             \A text \in ExamplePrompts :
               useExamplePrompt(cur, text) = [ cur EXCEPT !.userInput = text ]
        /\ (isProcessing /\ isProcessing') =>
             /\ IsPrefix(reqLog, reqLog')
             /\ IsPrefix(shown, shown')
             /\ IsPrefix(messages, messages') ]_vars

\* the prompt of an example card is in the text area while the request of a
\* turn is in flight: the card was clicked during the turn, the send was
\* ignored and the text stayed
C18_Witness ==
    /\ isProcessing
    /\ pc = "llm"
    /\ userInput \in ExamplePrompts
    /\ Len(reqLog) = 1

\* the positions in the display of the assistant messages of round k
AgentShown(k) ==
    { i \in 1..Len(shown) : shown[i].type = "agent" /\ shown[i].round = k }

\* the positions in toolStarts of the calls of round k
StartsOf(k) ==
    { j \in 1..Len(toolStarts) :
        \E i \in 1..Len(respLog[k].toolCalls) :
          respLog[k].toolCalls[i].id = toolStarts[j].id }

\* round k is past the checkpoint that follows its model response
PastCheckpoint(k) ==
    \/ k < Len(respLog)
    \/ Len(reqLog) > k
    \/ StartsOf(k) # {}
    \/ pc \in {"cp1", "cp3", "cp4", "tool"}
    \/ pc = "idle" /\ ~wasCancelled

C17_ConfigErrorBeforeAnyCall ==
    configFailed => (reqLog = <<>> /\ toolStarts = <<>>)

\* the console calls of a snippet that are calls of log, warn or error
LogWarnErrorCalls(calls) ==
    SelectSeq(calls, LAMBDA level : level \in {"log", "warn", "error"})

\* the entry of console_output for one call
ConsoleEntry(impl, level) ==
    IF impl = "ToolExecutor" THEN [ level |-> level, message |-> "m" ]
    ELSE CASE level = "log" -> "m"
           [] level = "error" -> "ERROR: " \o "m"
           [] level = "warn" -> "WARN: " \o "m"

\* C20: code_eval never throws to its caller; when the snippet completes the
\* result has success=true, result equal to the return value of the snippet
\* (null when return_value is false) and console_output equal to the log,
\* warn and error calls of the snippet in call order; when the snippet throws
\* the result has success=false, an error message that is a non-empty string,
\* and no result field.
C20_CodeEvalNeverThrows ==
    evalOut # NoResult =>
      LET code == evalIn.code
          lwe == LogWarnErrorCalls(code.calls)
      IN
      /\ ~evalOut.thrown
      /\ evalOut.success =>
           /\ code.ending \in {"return 1+1", "no return"}
           /\ evalOut.hasResult
           /\ evalOut.result =
                IF evalIn.return_value = "false" THEN Null
                ELSE IF code.ending = "return 1+1" THEN Number(2)
                ELSE Undefined
           /\ evalOut.hasConsole
           /\ evalOut.console_output =
                [ i \in 1..Len(lwe) |-> ConsoleEntry(evalOut.impl, lwe[i]) ]
      /\ ~evalOut.success =>
           /\ code.ending \notin {"return 1+1", "no return"}
                \/ Len(lwe) < Len(code.calls)
           /\ evalOut.hasError
           /\ evalOut.error.type = "string"
           /\ evalOut.error.text # ""
           /\ ~evalOut.hasResult

\* C22: every model, search and workflow request of the loop is given the
\* signal of the turn's abort controller, so the step in which a cancel
\* aborts the controller leaves no request in flight; when the request in
\* flight is a model request, that step ends the turn as cancelled and
\* neither records a response nor appends to the conversation nor displays
\* an assistant message.
C22_CancelAbortsRequestInFlight ==
    [][ /\ \A k \in 1..Len(reqLog') : reqLog'[k].signal
        /\ \A j \in 1..Len(toolStarts') :
             toolStarts'[j].name \in RemoteTools => toolStarts'[j].signal
        /\ (abortController = "live" /\ ~wasCancelled /\ wasCancelled') =>
             /\ inflight' = 0
             /\ pc' \notin {"llm", "tool"}
             /\ pc = "llm" =>
                  /\ pc' = "idle"
                  /\ report' = "cancelled"
                  /\ respLog' = respLog
                  /\ messages' = messages
                  /\ Len(shown') = Len(shown) + 1
                  /\ shown'[Len(shown')].type = "error" ]_vars

\* a workflow request was aborted by a cancel and got its error result
C22_Witness ==
    /\ wasCancelled
    /\ Len(toolStarts) = 1
    /\ toolStarts[1].name = "ai_pipe_workflow"
    /\ Len(toolLog) = 1
    /\ toolLog[1].result = "error: aborted"
    /\ inflight = 0

\* C26: in every state each assistant message of the conversation is
\* followed by the tool messages of all its tool calls, and as long as some
\* call of the current round has no result (the round is running, or it was
\* interrupted by a cancel or an error) the conversation holds nothing of
\* that round.
C26_NoPartialRound ==
    messages # <<>> =>
      /\ ToolMsgsMatch(messages)
      /\ (Len(respLog) >= 1 /\ Len(toolLog) < CallsUpTo(Len(respLog))) =>
           messages = RefConv(Len(respLog) - 1)

\* a round of two calls was cancelled after its first result and the turn
\* has ended with the conversation of the start of the turn
C26_Witness ==
    /\ pc = "idle"
    /\ wasCancelled
    /\ Len(respLog) = 1
    /\ Len(respLog[1].toolCalls) = 2
    /\ Len(toolLog) = 1
    /\ Len(messages) = 2

\* C28: in every state the send control and the text area are disabled and
\* the pause control is shown exactly while a turn is processing, so the
\* user can send whenever no turn is in progress.
C28_ControlsAgreeWithLoop ==
    (controls = "send") <=> ~isProcessing

\* C27: every model request of a turn goes to the endpoint of the first
\* request of that turn, with the same model and the same credentials,
\* whatever configuration events arrive during the turn.
C27_SameConfigWithinTurn ==
    \A k \in 1..Len(reqLog) :
      /\ reqLog[k].endpoint = reqLog[1].endpoint
      /\ reqLog[k].model = reqLog[1].model
      /\ reqLog[k].apiKey = reqLog[1].apiKey

\* C24: when a turn has ended, in whatever way, every tool call that
\* addToolCallsUI announced in it ('Executing...') has got exactly one
\* result or error event (updateToolCallResult) with its id.
C24_AnnouncedCallGetsOneResult ==
    pc = "idle" =>
      \A j \in 1..Len(announced) :
        Cardinality({ k \in 1..Len(toolLog) :
                        toolLog[k].tool_call_id = announced[j] }) = 1

\* an execute_javascript call of this turn has been started
JsStarted ==
    \E e \in Range(toolStarts) : e.name = "execute_javascript"

\* an execute_javascript call whose snippet does not terminate has been
\* started in this turn
JsRunsForever ==
    \E e \in Range(toolStarts) :
      \E k \in 1..Len(respLog) : \E i \in 1..Len(respLog[k].toolCalls) :
        /\ respLog[k].toolCalls[i].id = e.id
        /\ respLog[k].toolCalls[i].name = "execute_javascript"
        /\ respLog[k].toolCalls[i].arguments = NeverReturns

C21_EmptySearchIsNotAnError ==
    (searchOut # NoSearchResult
       /\ searchIn.response \in {"empty items", "no items"}) =>
      /\ ~searchOut.thrown
      /\ ~searchOut.hasError
      /\ searchOut.results = 0
      /\ searchOut.hasMessage

\* C25: the number of results asked of the search provider is num_results
\* when the call supplies it and 5 when it does not, and is never above 10.
C25_ResultCountSent ==
    searchOut # NoSearchResult =>
      /\ searchOut.num = IF searchIn.num_results = Absent
                           THEN DefaultNumResults
                         ELSE searchIn.num_results.n
      /\ searchOut.num <= NumResultsLimit

\* the sum of the per-tool counts of a toolUsage object
RECURSIVE SumCounts(_, _)
SumCounts(usage, keys) ==
    IF keys = {} THEN 0
    ELSE LET key == CHOOSE x \in keys : TRUE
         IN usage[key].n + SumCounts(usage, keys \ {key})

\* C29: the execution history of ToolExecutor is append-only and gets
\* exactly one record for each call of executeFunction that ends, by return
\* or by throw; getExecutionStats reports total = successful + failed, and
\* the per-tool usage counts add up to total.
C29_HistoryGrowsByOnePerCall ==
    [][ /\ IF Len(executing') > Len(executing)
             THEN executionHistory' = executionHistory
           ELSE /\ Len(executionHistory') = Len(executionHistory) + 1
                /\ SubSeq(executionHistory', 1, Len(executionHistory))
                     = executionHistory
        /\ LET stats == getExecutionStats(executionHistory') IN
             /\ stats.total = stats.successful + stats.failed
             /\ \A key \in DOMAIN stats.toolUsage :
                  stats.toolUsage[key].type = "number"
             /\ SumCounts(stats.toolUsage, DOMAIN stats.toolUsage)
                  = stats.total ]_vars

\* the call of a record of the history gave a successful result
GaveSuccess(e) ==
    e.hasResult /\ e.resultSuccess # "false"

\* C30: a record of the history carries success = true exactly when its
\* call gave a successful result; every failure, a snippet of
\* execute_javascript that threw included, is recorded with success = false
\* and counted as failed by getExecutionStats.
C30_SuccessFlagMatchesOutcome ==
    /\ \A i \in 1..Len(executionHistory) :
         executionHistory[i].success <=> GaveSuccess(executionHistory[i])
    /\ getExecutionStats(executionHistory).failed
         = Cardinality({ i \in 1..Len(executionHistory) :
                           ~GaveSuccess(executionHistory[i]) })

====
